---- MODULE Spec2Model ----
(***************************************************************************)
(* Model of the on-call core of vjranagit/grafana:                         *)
(*   - alert fingerprinting          (api.generateFingerprint)             *)
(*   - alert ingestion and upsert    (AlertProcessor.ProcessPrometheus-    *)
(*                                    Webhook, AlertProcessor.upsertAlert) *)
(*   - on-call rotation resolution   (Layer.GetOnCallUser,                 *)
(*                                    Schedule.GetCurrentOnCall)           *)
(*   - notification dispatch        (notifier.Manager)                     *)
(*   - escalation runs              (declared by EscalationChain and       *)
(*                                    EscalationPolicy; the engine follows *)
(*                                    the specification)                   *)
(*   - Slack messages               (SlackNotifier.buildSlackMessage)      *)
(*   - the alert routes of the API  (handlers.getAlert, acknowledgeAlert,  *)
(*                                    resolveAlert)                        *)
(*   - the flow engine's start order (Graph.TopologicalSort)               *)
(* The specifications share the variables: SpecFP (fingerprinting),        *)
(* SpecLayer and SpecSched (rotation), Spec (ingestion into the alert      *)
(* store by concurrent webhook requests), SpecBatch (one batch in two      *)
(* orders), SpecMgr (dispatch), SpecEsc and SpecEscFair (escalation),      *)
(* SpecSlack (one message), SpecApi (ingestion interleaved with operator   *)
(* requests) and SpecGraph (one sort).                                     *)
(***************************************************************************)
EXTENDS Integers, Sequences, FiniteSets, TLC

VARIABLES
    fpLabels,    \* fingerprinting: the two label maps handed to generateFingerprint
    fpOut,       \* fingerprinting: per map, the last call's result (or NoCall)
    layers,      \* rotation: Schedule.Layers
    now,         \* rotation: the instant t of the query, in hours
    rotOut,      \* rotation: the result of the last call (or NoCall)
    store,       \* store: AlertProcessor.store, "open" or "nil"
    rows,        \* store: the rows of table alert_groups
    clock,       \* store: the wall clock read by time.Now()
    pc,          \* store: per webhook request, the position in ProcessPrometheusWebhook
    nAlerts,     \* store: per webhook request, len(webhook.Alerts)
    idx,         \* store: per webhook request, the alerts of webhook.Alerts already stored
    cur,         \* store: per webhook request, the alertGroup built for the current alert
    ret,         \* store: per webhook request, len(alertGroups) and the error returned
    lastWrite,   \* store (history): per fingerprint, the mutable fields of the last committed upsert
    bOrder,      \* batch: two orderings of one webhook's alerts
    bFail,       \* batch: the alert whose upsert the store rejects (or NoFailure)
    bRun,        \* batch: per ordering, the table, the alerts stored and the result
    notifiers,   \* dispatch: Manager.notifiers, channel name -> Notifier
    invoked,     \* dispatch (history): the calls of Notifier.Send and their outcomes
    sendLog,     \* dispatch (history): the calls of Manager.Send and their results
    chain,       \* escalation: EscalationChain.Policies, as stored
    agStatus,    \* escalation: per fingerprint, AlertGroup.Status
    runs,        \* escalation: the escalation runs, in order of creation
    starts,      \* escalation: the number of requests to start a run
    notifications, \* escalation: the Notification rows recorded by the runs
    slackAlert,  \* slack: the alert handed to buildSlackMessage
    slackOut,    \* slack: the message built by the last call (or NoCall)
    gNodes,      \* flow graph: Graph.nodes, node id -> DependsOn
    gPc,         \* flow graph: the position in TopologicalSort
    gOrder,      \* flow graph: the node ids `range g.nodes` has still to yield
    gVisited,    \* flow graph: the ids marked in visited
    gResult,     \* flow graph: result
    gStack,      \* flow graph: the active calls of visit, innermost last
    gErr,        \* flow graph: the error TopologicalSort returned ("none" before)
    gSteps,      \* flow graph (history): the steps taken by TopologicalSort
    apiResp      \* api: the response to the last request on /alerts/{id}

fpVars    == <<fpLabels, fpOut>>
rotVars   == <<layers, now, rotOut>>
storeVars == <<store, rows, clock, pc, nAlerts, idx, cur, ret, lastWrite>>
batchVars == <<bOrder, bFail, bRun>>
mgrVars   == <<notifiers, invoked, sendLog>>
escVars   == <<chain, agStatus, runs, starts, notifications>>
slackVars == <<slackAlert, slackOut>>
graphVars == <<gNodes, gPc, gOrder, gVisited, gResult, gStack, gErr, gSteps>>
apiVars   == <<apiResp>>
auxVars   == <<slackVars, graphVars, apiVars>>
extVars   == <<batchVars, mgrVars, escVars, auxVars>>
vars      == <<fpLabels, fpOut, layers, now, rotOut,
               store, rows, clock, pc, nAlerts, idx, cur, ret, lastWrite,
               bOrder, bFail, bRun, notifiers, invoked, sendLog,
               chain, agStatus, runs, starts, notifications, slackAlert, slackOut,
               gNodes, gPc, gOrder, gVisited, gResult, gStack, gErr, gSteps, apiResp>>

NoCall == [called |-> FALSE]

(***************************************************************************)
(* Strings.  A Go string is modelled as the sequence of its bytes, each    *)
(* byte written as a one-character string; ByteOf gives the byte value     *)
(* that sort.Strings compares.                                             *)
(***************************************************************************)
ByteOf(c) ==
    CASE c = "1" -> 49  [] c = "2" -> 50  [] c = "=" -> 61  [] c = "_" -> 95
      [] c = "a" -> 97  [] c = "b" -> 98  [] c = "c" -> 99  [] c = "d" -> 100
      [] c = "e" -> 101 [] c = "f" -> 102 [] c = "i" -> 105 [] c = "l" -> 108
      [] c = "m" -> 109 [] c = "n" -> 110
      [] c = "o" -> 111 [] c = "p" -> 112 [] c = "r" -> 114 [] c = "s" -> 115
      [] c = "t" -> 116 [] c = "u" -> 117 [] c = "v" -> 118 [] c = "y" -> 121
      [] c = "|" -> 124

\* s < t in Go's string order (byte-wise lexicographic)
RECURSIVE StrLess(_, _)
StrLess(s, t) ==
    IF t = <<>> THEN FALSE
    ELSE IF s = <<>> THEN TRUE
    ELSE IF ByteOf(Head(s)) # ByteOf(Head(t)) THEN ByteOf(Head(s)) < ByteOf(Head(t))
    ELSE StrLess(Tail(s), Tail(t))

\* strings.HasPrefix
HasPrefix(s, prefix) ==
    /\ Len(s) >= Len(prefix)
    /\ SubSeq(s, 1, Len(prefix)) = prefix

\* strings.Join
RECURSIVE Join(_, _)
Join(elems, sep) ==
    IF elems = <<>> THEN <<>>
    ELSE IF Len(elems) = 1 THEN elems[1]
    ELSE elems[1] \o sep \o Join(Tail(elems), sep)

\* insertion of one string into a sorted sequence of strings
RECURSIVE InsertSorted(_, _)
InsertSorted(k, sorted) ==
    IF sorted = <<>> THEN <<k>>
    ELSE IF StrLess(k, Head(sorted)) THEN <<k>> \o sorted
    ELSE <<Head(sorted)>> \o InsertSorted(k, Tail(sorted))

\* a sort.Strings that leaves the slice as it was
SortStringsNoSort(ks) == ks

\* sort.Strings: ascending byte-wise order
RECURSIVE SortStrings(_)
SortStrings(ks) ==
    IF ks = <<>> THEN <<>>
    ELSE InsertSorted(Head(ks), SortStrings(Tail(ks)))

(***************************************************************************)
(* crypto/sha256 and fmt's %x.  Sum256 is a library function: the model    *)
(* keeps its interface (a deterministic function of the input bytes that   *)
(* returns 32 bytes) and replaces the compression function by a small      *)
(* polynomial mix, so that different inputs may, as with the real digest,  *)
(* only collide by accident.                                               *)
(***************************************************************************)
DigestSize == 32

RECURSIVE Mix(_, _)
Mix(bytes, acc) ==
    IF bytes = <<>> THEN acc
    ELSE Mix(Tail(bytes), (acc * 131 + ByteOf(Head(bytes)) + 7) % 65521)

Sum256(bytes) ==
    LET h == Mix(bytes, 40503)
    IN  [i \in 1..DigestSize |-> ((h + 1) * (2 * i + 29) + (h \div 251) * i) % 256]

LowerHexDigits == <<"0","1","2","3","4","5","6","7","8","9","a","b","c","d","e","f">>

\* %x of one byte without the leading zero
HexByteUnpadded(b) ==
    IF b < 16 THEN <<LowerHexDigits[b + 1]>>
    ELSE <<LowerHexDigits[(b \div 16) + 1], LowerHexDigits[(b % 16) + 1]>>

\* %x of one byte of a byte slice: two lowercase hexadecimal digits
HexByte(b) == <<LowerHexDigits[(b \div 16) + 1], LowerHexDigits[(b % 16) + 1]>>

\* fmt.Sprintf("%x", bs) of a byte slice
RECURSIVE SprintfHex(_)
SprintfHex(bs) ==
    IF bs = <<>> THEN <<>> ELSE HexByte(Head(bs)) \o SprintfHex(Tail(bs))

(***************************************************************************)
(* generateFingerprint                                                     *)
(***************************************************************************)
SeverityKey == <<"s","e","v","e","r","i","t","y">>
InternalPrefix == <<"_","_">>

\* a filter that forgets the `severity` label
IsSkippedPrefixOnly(k) == HasPrefix(k, InternalPrefix)

\* line 418: the labels that do not define the alert's identity
IsSkipped(k) == k = SeverityKey \/ HasPrefix(k, InternalPrefix)

\* lines 415-422: the "key=value" parts of the keys in the given order
RECURSIVE Parts(_, _)
Parts(labels, keys) ==
    IF keys = <<>> THEN <<>>
    ELSE IF IsSkipped(Head(keys)) THEN Parts(labels, Tail(keys))
    ELSE <<Head(keys) \o <<"=">> \o labels[Head(keys)]>> \o Parts(labels, Tail(keys))

\* lines 409-424: the string that is hashed.  iterOrder is the order in
\* which `for k := range labels` happens to visit the keys.
FingerprintInput(labels, iterOrder) ==
    Join(Parts(labels, SortStrings(iterOrder)), <<"|">>)

\* lines 407-427
generateFingerprint(labels, iterOrder) ==
    SprintfHex(SubSeq(Sum256(FingerprintInput(labels, iterOrder)), 1, 8))

\* the orders in which a map with key set S can be iterated
IterOrders(S) ==
    {o \in [1..Cardinality(S) -> S] : \A i, j \in 1..Cardinality(S) : o[i] = o[j] => i = j}

(***************************************************************************)
(* Inputs of the fingerprinting specification                              *)
(***************************************************************************)
MaxLabels == 2

LabelKeys == { <<"a">>, <<"b">>, SeverityKey, <<"_","_","r">> }
LabelValues == { <<"1">>, <<"2">>, <<"1","|","b","=","2">> }

LabelMaps ==
    UNION { [S -> LabelValues] : S \in {T \in SUBSET LabelKeys : Cardinality(T) <= MaxLabels} }

(***************************************************************************)
(* Specification SpecFP: two label maps, each fingerprinted by a call of   *)
(* generateFingerprint that iterates its map in an arbitrary order.        *)
(***************************************************************************)
FPInit ==
    /\ fpLabels \in [1..2 -> LabelMaps]
    /\ fpOut = [i \in 1..2 |-> NoCall]

FPIdle ==
    /\ fpLabels = [i \in 1..2 |-> <<>>]
    /\ fpOut = [i \in 1..2 |-> NoCall]

CallGenerateFingerprint(i) ==
    /\ \E o \in IterOrders(DOMAIN fpLabels[i]) :
          fpOut' = [fpOut EXCEPT ![i] =
                      [called |-> TRUE,
                       input  |-> FingerprintInput(fpLabels[i], o),
                       fp     |-> generateFingerprint(fpLabels[i], o)]]
    /\ UNCHANGED <<fpLabels, rotVars, storeVars, extVars>>

(***************************************************************************)
(* Rotation: Layer.GetOnCallUser and Schedule.GetCurrentOnCall.            *)
(* Instants and durations are counted in hours (time.Hour = 1).            *)
(***************************************************************************)
Abs(x) == IF x < 0 THEN -x ELSE x

\* Go's integer quotient a / b for b # 0: truncated toward zero
GoDiv(a, b) ==
    IF (a < 0) = (b < 0) THEN Abs(a) \div Abs(b) ELSE -(Abs(a) \div Abs(b))

\* Go's integer remainder a % b for b # 0: takes the sign of a
GoRem(a, b) == a - b * GoDiv(a, b)

Returned(user) == [user |-> user, err |-> "nil", panic |-> "none"]
Panicked(what) == [user |-> "", err |-> "nil", panic |-> what]

\* a switch whose weekly case has the daily interval
RotationIntervalWeeklyAsDaily(l) ==
    CASE l.RotationType = "daily"  -> 24
      [] l.RotationType = "weekly" -> 24
      [] OTHER                     -> l.DurationHours

\* part_004 lines 50-58
RotationInterval(l) ==
    CASE l.RotationType = "daily"  -> 24
      [] l.RotationType = "weekly" -> 7 * 24
      [] OTHER                     -> l.DurationHours

\* a rotation that takes the elapsed hours themselves as the rotation count
RotateNoDivision(l, t) ==
    LET duration         == t - l.RotationStart
        rotationInterval == RotationInterval(l)
    IN  IF rotationInterval = 0 THEN Panicked("integer divide by zero")
        ELSE IF Len(l.Users) = 0 THEN Panicked("integer divide by zero")
        ELSE LET userIndex == GoRem(duration, Len(l.Users))
             IN  IF userIndex < 0 \/ userIndex >= Len(l.Users)
                 THEN Panicked("index out of range")
                 ELSE Returned(l.Users[userIndex + 1])

\* part_004 lines 47-64: the path taken once the users list is known to be
\* non-empty.  The two integer operations panic on a zero divisor and the
\* slice index panics outside [0, len).
Rotate(l, t) ==
    LET duration         == t - l.RotationStart
        rotationInterval == RotationInterval(l)
    IN  IF rotationInterval = 0 THEN Panicked("integer divide by zero")
        ELSE IF Len(l.Users) = 0 THEN Panicked("integer divide by zero")
        ELSE LET rotations == GoDiv(duration, rotationInterval)
                 userIndex == GoRem(rotations, Len(l.Users))
             IN  IF userIndex < 0 \/ userIndex >= Len(l.Users)
                 THEN Panicked("index out of range")
                 ELSE Returned(l.Users[userIndex + 1])

\* a GetOnCallUser without the early return for an empty users list
GetOnCallUserNoEmptyReturn(l, t) == Rotate(l, t)

\* part_004 lines 42-65
GetOnCallUser(l, t) ==
    IF Len(l.Users) = 0 THEN Returned("") ELSE Rotate(l, t)

\* part_004 lines 30-39: a panic inside layer.GetOnCallUser unwinds through
\* the loop
RECURSIVE GetCurrentOnCall(_, _)
GetCurrentOnCall(ls, t) ==
    IF ls = <<>> THEN Returned("")
    ELSE LET r == GetOnCallUser(Head(ls), t)
         IN  IF r.panic # "none" THEN r
             ELSE IF r.err = "nil" /\ r.user # "" THEN Returned(r.user)
             ELSE GetCurrentOnCall(Tail(ls), t)

(***************************************************************************)
(* Inputs of the rotation specification                                    *)
(***************************************************************************)
MaxUsers   == 3
MaxLayers  == 2
PreHours   == 96      \* the earliest instant is hour -PreHours
PostHours  == 384     \* the latest instant is hour PostHours
SchedHours == 36      \* whole schedules are queried within SchedHours of hour 0

Roster == <<"alice", "bob", "charlie", "dave", "erin">>
UserLists == { SubSeq(Roster, 1, n) : n \in 0..MaxUsers }
RotationTypes == {"daily", "weekly", "custom"}
DurationChoices == {-12, 0, 12}
RotationStarts == {24}

LayerSet ==
    [RotationType : RotationTypes, RotationStart : RotationStarts,
     DurationHours : DurationChoices, Users : UserLists]

Schedules == UNION { [1..n -> LayerSet] : n \in 0..MaxLayers }

Instants == (-PreHours)..PostHours
\* whole schedules are queried at every half day
SchedInstants == { h \in (-SchedHours)..SchedHours : h % 12 = 0 }

(***************************************************************************)
(* Specifications SpecLayer (one layer, resolved by Layer.GetOnCallUser)   *)
(* and SpecSched (a schedule of several layers, resolved by                *)
(* Schedule.GetCurrentOnCall).                                             *)
(***************************************************************************)
LayerInit ==
    /\ layers \in [1..1 -> LayerSet]
    /\ now \in Instants
    /\ rotOut = NoCall

SchedInit ==
    /\ layers \in Schedules
    /\ now \in SchedInstants
    /\ rotOut = NoCall

RotIdle ==
    /\ layers = <<>>
    /\ now = 0
    /\ rotOut = NoCall

CallGetOnCallUser(i) ==
    /\ i \in 1..Len(layers)
    /\ rotOut' = [called |-> TRUE, op |-> "Layer.GetOnCallUser", layer |-> i,
                  res |-> GetOnCallUser(layers[i], now)]
    /\ UNCHANGED <<layers, now, fpVars, storeVars, extVars>>

CallGetCurrentOnCall ==
    /\ rotOut' = [called |-> TRUE, op |-> "Schedule.GetCurrentOnCall", layer |-> 0,
                  res |-> GetCurrentOnCall(layers, now)]
    /\ UNCHANGED <<layers, now, fpVars, storeVars, extVars>>

(***************************************************************************)
(* Ingestion: AlertProcessor.ProcessPrometheusWebhook and upsertAlert      *)
(* against table alert_groups.                                             *)
(***************************************************************************)
EmptyString == <<>>
InfoString  == <<"i","n","f","o">>
AlertnameKey   == <<"a","l","e","r","t","n","a","m","e">>
SummaryKey     == <<"s","u","m","m","a","r","y">>
DescriptionKey == <<"d","e","s","c","r","i","p","t","i","o","n">>

\* m[k] of a Go map: the zero value "" when the key is absent
MapGet(m, k) == IF k \in DOMAIN m THEN m[k] ELSE EmptyString

\* json.Marshal of a map[string]string: an object whose members are in
\* ascending key order, here the sequence of its <<key, value>> members
MarshalMap(m) ==
    LET ks == SortStrings(CHOOSE o \in IterOrders(DOMAIN m) : TRUE)
    IN  [i \in 1..Len(ks) |-> <<ks[i], m[ks[i]]>>]

\* an alertGroup built without the `info` default of severity and without
\* the alertname fallback of summary
BuildAlertGroupNoFallback(alert, iterOrder, createdAt, updatedAt) ==
    [ID          |-> 0,
     Fingerprint |-> generateFingerprint(alert.Labels, iterOrder),
     Status      |-> alert.Status,
     Severity    |-> MapGet(alert.Labels, SeverityKey),
     Summary     |-> MapGet(alert.Annotations, SummaryKey),
     Description |-> MapGet(alert.Annotations, DescriptionKey),
     Labels      |-> alert.Labels,
     Annotations |-> alert.Annotations,
     CreatedAt   |-> createdAt,
     UpdatedAt   |-> updatedAt]

\* store.go lines 366-393: the alertGroup built for one alert of the batch;
\* createdAt and updatedAt are the two readings of time.Now()
BuildAlertGroup(alert, iterOrder, createdAt, updatedAt) ==
    LET severity == MapGet(alert.Labels, SeverityKey)
        summary  == MapGet(alert.Annotations, SummaryKey)
    IN  [ID          |-> 0,
         Fingerprint |-> generateFingerprint(alert.Labels, iterOrder),
         Status      |-> alert.Status,
         Severity    |-> IF severity = EmptyString THEN InfoString ELSE severity,
         Summary     |-> IF summary = EmptyString
                         THEN MapGet(alert.Labels, AlertnameKey) ELSE summary,
         Description |-> MapGet(alert.Annotations, DescriptionKey),
         Labels      |-> alert.Labels,
         Annotations |-> alert.Annotations,
         CreatedAt   |-> createdAt,
         UpdatedAt   |-> updatedAt]

\* a row whose labels and annotations columns got each other's value
NewRowSwapped(id, alert) ==
    [id |-> id,
     fingerprint |-> alert.Fingerprint,
     status |-> alert.Status,
     severity |-> alert.Severity,
     summary |-> alert.Summary,
     description |-> alert.Description,
     labels |-> MarshalMap(alert.Annotations),
     annotations |-> MarshalMap(alert.Labels),
     escalation_chain_id |-> "NULL",
     acknowledged_by |-> "NULL",
     acknowledged_at |-> "NULL",
     resolved_at |-> "NULL",
     created_at |-> alert.CreatedAt,
     updated_at |-> alert.UpdatedAt]

\* store.go lines 79-95: a row of alert_groups
NewRow(id, alert) ==
    [id |-> id,
     fingerprint |-> alert.Fingerprint,
     status |-> alert.Status,
     severity |-> alert.Severity,
     summary |-> alert.Summary,
     description |-> alert.Description,
     labels |-> MarshalMap(alert.Labels),
     annotations |-> MarshalMap(alert.Annotations),
     escalation_chain_id |-> "NULL",
     acknowledged_by |-> "NULL",
     acknowledged_at |-> "NULL",
     resolved_at |-> "NULL",
     created_at |-> alert.CreatedAt,
     updated_at |-> alert.UpdatedAt]

\* AUTOINCREMENT: one more than the largest id in the table
NextID(rs) ==
    IF rs = {} THEN 1 ELSE 1 + CHOOSE m \in {r.id : r \in rs} : \A r \in rs : r.id <= m

\* an upsert that replaces the conflicting row's created_at as well
\* (INSERT OR REPLACE keeping the id)
upsertAlertReplace(rs, alert) ==
    LET hit == {r \in rs : r.fingerprint = alert.Fingerprint}
    IN  IF hit = {} THEN rs \cup {NewRow(NextID(rs), alert)}
        ELSE (rs \ hit) \cup {NewRow(r.id, alert) : r \in hit}

\* an upsert that deletes the conflicting row and inserts a new one
upsertAlertReinsert(rs, alert) ==
    LET hit == {r \in rs : r.fingerprint = alert.Fingerprint}
    IN  (rs \ hit) \cup {NewRow(NextID(rs), alert)}

\* an upsert whose DO UPDATE SET omits severity and summary
upsertAlertPartial(rs, alert) ==
    LET hit == {r \in rs : r.fingerprint = alert.Fingerprint}
    IN  IF hit = {} THEN rs \cup {NewRow(NextID(rs), alert)}
        ELSE (rs \ hit) \cup
             { [r EXCEPT !.status = alert.Status,
                         !.description = alert.Description,
                         !.labels = MarshalMap(alert.Labels),
                         !.annotations = MarshalMap(alert.Annotations),
                         !.updated_at = alert.UpdatedAt] : r \in hit }

\* store.go lines 430-442: the table after the statement
\* INSERT ... ON CONFLICT(fingerprint) DO UPDATE SET ... RETURNING id
upsertAlert(rs, alert) ==
    LET hit == {r \in rs : r.fingerprint = alert.Fingerprint}
    IN  IF hit = {} THEN rs \cup {NewRow(NextID(rs), alert)}
        ELSE (rs \ hit) \cup
             { [r EXCEPT !.status = alert.Status,
                         !.severity = alert.Severity,
                         !.summary = alert.Summary,
                         !.description = alert.Description,
                         !.labels = MarshalMap(alert.Labels),
                         !.annotations = MarshalMap(alert.Annotations),
                         !.updated_at = alert.UpdatedAt] : r \in hit }

\* RETURNING id, scanned into alert.ID (line 454)
ReturnedID(rs, alert) ==
    (CHOOSE r \in rs : r.fingerprint = alert.Fingerprint).id

(***************************************************************************)
(* Inputs of the ingestion specification                                   *)
(***************************************************************************)
NumRequests == 2     \* webhook requests in flight
MaxAlerts   == 2     \* alerts carried by all the webhooks together
MaxClock    == 1     \* last reading of the clock

Requests == 1..NumRequests

MapOf(pairs) == [k \in {q[1] : q \in pairs} |-> (CHOOSE q \in pairs : q[1] = k)[2]]

\* the alerts a webhook can carry: two reports of the alert a=1 that differ
\* in status, severity (the second one's is empty) and annotations; one of
\* another alert, which has an alertname and no summary and whose status is
\* not one of the upstream statuses; and one with no labels
StoreAlerts ==
    { [Status |-> "firing",
       Labels |-> MapOf({ <<<<"a">>, <<"1">>>>, <<SeverityKey, <<"2">>>> }),
       Annotations |-> MapOf({ <<SummaryKey, <<"1">>>> })],
      [Status |-> "resolved",
       Labels |-> MapOf({ <<<<"a">>, <<"1">>>>, <<SeverityKey, EmptyString>> }),
       Annotations |-> MapOf({})],
      [Status |-> "acknowledged",
       Labels |-> MapOf({ <<AlertnameKey, <<"2">>>> }),
       Annotations |-> MapOf({ <<DescriptionKey, <<"2">>>> })],
      [Status |-> "firing",
       Labels |-> MapOf({}),
       Annotations |-> MapOf({})] }

NoAlertGroup == [ID |-> 0]

\* the fields that ON CONFLICT ... DO UPDATE SET overwrites, as sent by one
\* ingestion
MutableFields(alert) ==
    [status |-> alert.Status,
     severity |-> alert.Severity,
     summary |-> alert.Summary,
     description |-> alert.Description,
     labels |-> MarshalMap(alert.Labels),
     annotations |-> MarshalMap(alert.Annotations),
     updated_at |-> alert.UpdatedAt]

(***************************************************************************)
(* Specification Spec: NumRequests webhook requests run                    *)
(* ProcessPrometheusWebhook concurrently against one table.                *)
(***************************************************************************)
\* the processor is built by NewAlertProcessor(store) (line 357) or, as in
\* TestProcessPrometheusWebhook (line 279), as &AlertProcessor{} with no store
StoreInit ==
    /\ store \in {"open", "nil"}
    /\ rows = {}
    /\ clock = 0
    /\ pc = [p \in Requests |-> "idle"]
    /\ nAlerts = [p \in Requests |-> 0]
    /\ idx = [p \in Requests |-> 0]
    /\ cur = [p \in Requests |-> NoAlertGroup]
    /\ ret = [p \in Requests |-> [alertGroups |-> 0, err |-> "nil"]]
    /\ lastWrite = <<>>

StoreIdle == StoreInit /\ store = "open"

\* f[1] + ... + f[n]
RECURSIVE SumUpTo(_, _)
SumUpTo(f, n) == IF n = 0 THEN 0 ELSE f[n] + SumUpTo(f, n - 1)

\* receivePrometheusAlert (router.go lines 115-127) hands a decoded webhook
\* with n alerts to ProcessPrometheusWebhook
Receive(p, n) ==
    /\ pc[p] = "idle"
    /\ n + SumUpTo(nAlerts, NumRequests) <= MaxAlerts
    /\ pc' = [pc EXCEPT ![p] = "loop"]
    /\ nAlerts' = [nAlerts EXCEPT ![p] = n]
    /\ UNCHANGED <<store, rows, clock, idx, cur, ret, lastWrite, fpVars, rotVars, extVars>>

\* lines 365-393: the next alert of the batch is turned into an alertGroup;
\* the clock may have moved on before each of the two readings of time.Now()
Build(p, alert, d1, d2) ==
    /\ pc[p] = "loop"
    /\ idx[p] < nAlerts[p]
    /\ clock + d1 + d2 <= MaxClock
    /\ \E o \in IterOrders(DOMAIN alert.Labels) :
          cur' = [cur EXCEPT ![p] = BuildAlertGroup(alert, o, clock + d1, clock + d1 + d2)]
    /\ clock' = clock + d1 + d2
    /\ pc' = [pc EXCEPT ![p] = "upsert"]
    /\ UNCHANGED <<store, rows, nAlerts, idx, ret, lastWrite, fpVars, rotVars, extVars>>

\* lines 396-400 with upsertAlert (lines 429-457) succeeding: the statement
\* commits, the id is scanned into the alertGroup, which is appended to
\* alertGroups (the model keeps the slice's length; its last element is cur[p])
UpsertOK(p) ==
    /\ pc[p] = "upsert"
    /\ store = "open"
    /\ LET rs == upsertAlert(rows, cur[p])
           ag == [cur[p] EXCEPT !.ID = ReturnedID(rs, cur[p])]
       IN  /\ rows' = rs
           /\ cur' = [cur EXCEPT ![p] = ag]
           /\ ret' = [ret EXCEPT ![p].alertGroups = @ + 1]
           /\ lastWrite' = [f \in DOMAIN lastWrite \cup {ag.Fingerprint} |->
                               IF f = ag.Fingerprint THEN MutableFields(ag)
                               ELSE lastWrite[f]]
    /\ idx' = [idx EXCEPT ![p] = @ + 1]
    /\ pc' = [pc EXCEPT ![p] = "loop"]
    /\ UNCHANGED <<store, clock, nAlerts, fpVars, rotVars, extVars>>

\* lines 396-398 with upsertAlert returning an error: nothing is written
\* and the request returns nil and the wrapped error
UpsertErr(p) ==
    /\ pc[p] = "upsert"
    /\ store = "open"
    /\ ret' = [ret EXCEPT ![p] = [alertGroups |-> 0, err |-> "failed to store alert"]]
    /\ cur' = [cur EXCEPT ![p] = NoAlertGroup]
    /\ pc' = [pc EXCEPT ![p] = "done"]
    /\ UNCHANGED <<store, rows, clock, nAlerts, idx, lastWrite, fpVars, rotVars, extVars>>

\* line 444 with p.store = nil: Store.DB (lines 132-134) reads s.db through
\* the nil receiver, a nil pointer dereference; ProcessPrometheusWebhook
\* panics and returns nothing to its caller
UpsertPanic(p) ==
    /\ pc[p] = "upsert"
    /\ store = "nil"
    /\ pc' = [pc EXCEPT ![p] = "panicked"]
    /\ UNCHANGED <<store, rows, clock, nAlerts, idx, cur, ret, lastWrite, fpVars, rotVars, extVars>>

\* line 403: the loop is over
Return(p) ==
    /\ pc[p] = "loop"
    /\ idx[p] = nAlerts[p]
    /\ cur' = [cur EXCEPT ![p] = NoAlertGroup]
    /\ pc' = [pc EXCEPT ![p] = "done"]
    /\ UNCHANGED <<store, rows, clock, nAlerts, idx, ret, lastWrite, fpVars, rotVars, extVars>>

(***************************************************************************)
(* Specification SpecBatch: ProcessPrometheusWebhook handles the same      *)
(* batch in two orders, each against a table of its own; the store rejects *)
(* the upsert of one alert of the batch, or of none.                       *)
(***************************************************************************)
MaxBatch == 2     \* alerts in the batch

NoFailure == [Status |-> "none"]

\* the fingerprint of an alert's labels
FingerprintOf(alert) ==
    generateFingerprint(alert.Labels, CHOOSE o \in IterOrders(DOMAIN alert.Labels) : TRUE)

\* webhook.Alerts: sequences of alerts with pairwise distinct fingerprints
Batches ==
    { b \in UNION { [1..n -> StoreAlerts] : n \in 0..MaxBatch } :
        \A i, j \in 1..Len(b) : i # j => FingerprintOf(b[i]) # FingerprintOf(b[j]) }

IsPermutation(a, b) ==
    /\ Len(a) = Len(b)
    /\ {a[i] : i \in 1..Len(a)} = {b[i] : i \in 1..Len(b)}

BatchInit ==
    /\ bOrder \in { o \in [1..2 -> Batches] : IsPermutation(o[1], o[2]) }
    /\ bFail \in {bOrder[1][i] : i \in 1..Len(bOrder[1])} \cup {NoFailure}
    /\ bRun = [i \in 1..2 |-> [rows |-> {}, idx |-> 0, pc |-> "loop",
                               alertGroups |-> 0, err |-> "nil"]]

BatchIdle ==
    /\ bOrder = [i \in 1..2 |-> <<>>]
    /\ bFail = NoFailure
    /\ bRun = [i \in 1..2 |-> [rows |-> {}, idx |-> 0, pc |-> "loop",
                               alertGroups |-> 0, err |-> "nil"]]

\* the alert the loop of lines 365-401 is at
BatchCurrent(i) == bOrder[i][bRun[i].idx + 1]

\* lines 365-400 for one alert whose upsert succeeds
BatchUpsertOK(i) ==
    /\ bRun[i].pc = "loop"
    /\ bRun[i].idx < Len(bOrder[i])
    /\ BatchCurrent(i) # bFail
    /\ \E o \in IterOrders(DOMAIN BatchCurrent(i).Labels) :
          bRun' = [bRun EXCEPT ![i].rows =
                        upsertAlert(@, BuildAlertGroup(BatchCurrent(i), o, 0, 0)),
                               ![i].idx = @ + 1,
                               ![i].alertGroups = @ + 1]
    /\ UNCHANGED <<bOrder, bFail, fpVars, rotVars, storeVars, mgrVars, escVars, auxVars>>

\* lines 365-398 for one alert whose upsert fails: the request returns nil
\* and the wrapped error, and the rest of the batch is not looked at
BatchUpsertErr(i) ==
    /\ bRun[i].pc = "loop"
    /\ bRun[i].idx < Len(bOrder[i])
    /\ BatchCurrent(i) = bFail
    /\ bRun' = [bRun EXCEPT ![i].pc = "done",
                            ![i].alertGroups = 0,
                            ![i].err = "failed to store alert"]
    /\ UNCHANGED <<bOrder, bFail, fpVars, rotVars, storeVars, mgrVars, escVars, auxVars>>

\* line 403
BatchReturn(i) ==
    /\ bRun[i].pc = "loop"
    /\ bRun[i].idx = Len(bOrder[i])
    /\ bRun' = [bRun EXCEPT ![i].pc = "done"]
    /\ UNCHANGED <<bOrder, bFail, fpVars, rotVars, storeVars, mgrVars, escVars, auxVars>>

(***************************************************************************)
(* Notification dispatch: notifier.Manager (notifier.go lines 21-48)       *)
(***************************************************************************)
MaxSends == 2     \* calls of Manager.Send

\* the notifiers that can be registered: two SlackNotifiers (different
\* webhook URLs) and an EmailNotifier
NotifierSet ==
    { [channel |-> "slack", inst |-> 1], [channel |-> "slack", inst |-> 2],
      [channel |-> "email", inst |-> 1] }

\* the channel names Send is called with; no notifier's Channel() is "unknown"
ChannelNames == {"slack", "email", "unknown"}

Recipients == {"", "r"}

\* an error value: the format of its message and the argument formatted
NilError == [msg |-> "nil", arg |-> ""]
SlackSendError == [msg |-> "failed to send slack notification: %w", arg |-> "err"]

\* what Notifier.Send can return: SlackNotifier.Send (lines 69-107) fails
\* when the request fails, EmailNotifier.Send (lines 227-234) returns nil
Outcomes(n) ==
    IF n.channel = "slack" THEN {NilError, SlackSendError} ELSE {NilError}

\* fmt.Errorf("unknown notification channel: %s", channel)
UnknownChannelError(channel) ==
    [msg |-> "unknown notification channel: %s", arg |-> channel]

NoNotifier == [channel |-> "", inst |-> 0]

\* a Send that hands an unknown channel's alert to some registered notifier
ManagerSendFallback(m, channel) ==
    IF channel \in DOMAIN m THEN [ok |-> TRUE, notifier |-> m[channel]]
    ELSE IF DOMAIN m # {} THEN [ok |-> TRUE, notifier |-> m[CHOOSE c \in DOMAIN m : TRUE]]
    ELSE [ok |-> FALSE, notifier |-> NoNotifier]

\* a Send that returns nil for a channel that is not registered
ManagerSendSilent(m, channel) ==
    IF channel \in DOMAIN m THEN [ok |-> TRUE, notifier |-> m[channel]]
    ELSE [ok |-> TRUE, notifier |-> NoNotifier]

\* lines 37-40: notifier, ok := m.notifiers[channel]
ManagerSend(m, channel) ==
    IF channel \in DOMAIN m THEN [ok |-> TRUE, notifier |-> m[channel]]
    ELSE [ok |-> FALSE, notifier |-> NoNotifier]

MgrInit ==
    /\ notifiers = <<>>
    /\ invoked = <<>>
    /\ sendLog = <<>>

MgrIdle == MgrInit

\* Manager.Register (lines 32-34): m.notifiers[notifier.Channel()] = notifier
Register(n) ==
    /\ notifiers' = [c \in DOMAIN notifiers \cup {n.channel} |->
                        IF c = n.channel THEN n ELSE notifiers[c]]
    /\ UNCHANGED <<invoked, sendLog, fpVars, rotVars, storeVars, batchVars, escVars, auxVars>>

\* Manager.Send (lines 36-48); outcome is what the notifier's Send returns
Send(channel, recipient, outcome) ==
    /\ Len(sendLog) < MaxSends
    /\ LET l == ManagerSend(notifiers, channel)
       IN  IF ~l.ok
           THEN /\ outcome = NilError
                /\ sendLog' = Append(sendLog, [channel |-> channel,
                                               err |-> UnknownChannelError(channel)])
                /\ invoked' = invoked
           ELSE /\ outcome \in Outcomes(l.notifier)
                /\ invoked' = Append(invoked, [notifier |-> l.notifier,
                                               recipient |-> recipient,
                                               err |-> outcome])
                /\ sendLog' = Append(sendLog, [channel |-> channel, err |-> outcome])
    /\ UNCHANGED <<notifiers, fpVars, rotVars, storeVars, batchVars, escVars, auxVars>>

(***************************************************************************)
(* Escalation engine.  The source declares EscalationChain,                *)
(* EscalationPolicy and AlertGroup (models, lines 67-102) and has no       *)
(* engine; the run state machine below follows sections 3, 4.4 and 5 of    *)
(* the specification.                                                      *)
(***************************************************************************)
MaxStarts == 2     \* requests to start a run

EscFingerprints == {"f1", "f2"}

\* an EscalationPolicy (lines 77-84)
Policy(n, type, target, wait) ==
    [StepNumber |-> n, PolicyType |-> type, Target |-> target, WaitSeconds |-> wait]

\* the chains linked to the alert groups: notify then wait 300 s; a wait of
\* 100 s then a channel notification, stored out of order; a chain whose
\* step numbers are not unique; a chain with no step
Chains ==
    { << Policy(1, "notify_user", "primary", 0), Policy(2, "wait", "", 300) >>,
      << Policy(3, "notify_channel", "slack", 0), Policy(1, "wait", "", 100) >>,
      << Policy(1, "notify_user", "primary", 0), Policy(1, "wait", "", 100) >>,
      << >> }

Terminal == {"stopped_acknowledged", "stopped_resolved", "stopped_exhausted"}

\* the policies in the order they are stored
LoadUnsorted(ps) == ps

\* "load chain steps ordered by stepNumber"
RECURSIVE SortPolicies(_)
SortPolicies(ps) ==
    IF ps = <<>> THEN <<>>
    ELSE LET m == CHOOSE i \in 1..Len(ps) :
                      \A j \in 1..Len(ps) : ps[i].StepNumber <= ps[j].StepNumber
         IN  <<ps[m]>> \o SortPolicies([k \in 1..(Len(ps) - 1) |->
                                           IF k < m THEN ps[k] ELSE ps[k + 1]])

\* step numbers within a chain are unique
WellFormed(ps) ==
    \A i, j \in 1..Len(ps) : i # j => ps[i].StepNumber # ps[j].StepNumber

\* a run in state pending: created, no step executed yet
NewRun(f) ==
    [fp |-> f, state |-> "pending", steps |-> <<>>, index |-> 0,
     timer |-> "none", waited |-> 0, executed |-> <<>>, active |-> {},
     err |-> "none"]

HasActiveRun(f) ==
    \E r \in 1..Len(runs) : runs[r].fp = f /\ runs[r].state \notin Terminal

\* an advance that, after the last step, leaves the run waiting with no
\* timer
EnterStuck(run, k) ==
    IF k > Len(run.steps)
    THEN [run EXCEPT !.state = "waiting", !.index = k,
                     !.timer = "none", !.active = {}]
    ELSE [run EXCEPT !.state = IF run.steps[k].PolicyType = "wait"
                               THEN "waiting" ELSE "notifying",
                     !.index = k,
                     !.timer = IF run.steps[k].PolicyType = "wait"
                               THEN "running" ELSE "none",
                     !.waited = 0,
                     !.executed = Append(@, run.steps[k].StepNumber),
                     !.active = {run.steps[k].StepNumber}]

\* the run after its current step completed: it enters step k, or is
\* exhausted when the last step has completed
Enter(run, k) ==
    IF k > Len(run.steps)
    THEN [run EXCEPT !.state = "stopped_exhausted", !.index = k,
                     !.timer = "none", !.active = {}]
    ELSE [run EXCEPT !.state = IF run.steps[k].PolicyType = "wait"
                               THEN "waiting" ELSE "notifying",
                     !.index = k,
                     !.timer = IF run.steps[k].PolicyType = "wait"
                               THEN "running" ELSE "none",
                     !.waited = 0,
                     !.executed = Append(@, run.steps[k].StepNumber),
                     !.active = {run.steps[k].StepNumber}]

\* the run stopped by a status change of its alert group: the pending timer
\* is cancelled
Stop(run, state) ==
    [run EXCEPT !.state = state, !.timer = "none", !.active = {}]

EscInit ==
    /\ chain \in Chains
    /\ agStatus = [f \in EscFingerprints |-> "firing"]
    /\ runs = <<>>
    /\ starts = 0
    /\ notifications = {}

EscIdle ==
    /\ chain = <<>>
    /\ agStatus = [f \in EscFingerprints |-> "firing"]
    /\ runs = <<>>
    /\ starts = 0
    /\ notifications = {}

EscOthers == <<fpVars, rotVars, storeVars, batchVars, mgrVars, auxVars>>

\* every non-terminal run bound to f, stopped in the given state
StopRunsOf(f, state) ==
    [r \in 1..Len(runs) |->
        IF runs[r].fp = f /\ runs[r].state \notin Terminal
        THEN Stop(runs[r], state) ELSE runs[r]]

\* a start request that creates a run whatever runs exist
StartRunAlways(f) ==
    /\ starts < MaxStarts
    /\ agStatus[f] = "firing"
    /\ starts' = starts + 1
    /\ runs' = Append(runs, NewRun(f))
    /\ UNCHANGED <<chain, agStatus, notifications, EscOthers>>

\* a request to start a run for the firing alert group f: a no-op when f
\* already has a non-terminal run
StartRun(f) ==
    /\ starts < MaxStarts
    /\ agStatus[f] = "firing"
    /\ starts' = starts + 1
    /\ runs' = IF HasActiveRun(f) THEN runs ELSE Append(runs, NewRun(f))
    /\ UNCHANGED <<chain, agStatus, notifications, EscOthers>>

\* pending, on start: the steps are loaded in stepNumber order and the first
\* one is entered; a malformed chain fails the run into stopped_exhausted
Begin(r) ==
    /\ r \in 1..Len(runs)
    /\ runs[r].state = "pending"
    /\ runs' = [runs EXCEPT ![r] =
                  IF ~WellFormed(chain)
                  THEN [@ EXCEPT !.state = "stopped_exhausted",
                                 !.err = "malformed step ordering"]
                  ELSE Enter([@ EXCEPT !.steps = SortPolicies(chain)], 1)]
    /\ UNCHANGED <<chain, agStatus, starts, notifications, EscOthers>>

\* the channel a notify step dispatches over: the target of a
\* notify_channel step, e-mail for the on-call user of a notify_user step
ChannelOf(step) ==
    IF step.PolicyType = "notify_channel" THEN step.Target ELSE "email"

RecipientOf(step) ==
    IF step.PolicyType = "notify_user" THEN step.Target ELSE ""

\* what Manager.Send (notifier.go lines 36-48) can return for the channel
SendResults(m, channel) ==
    LET l == ManagerSend(m, channel)
    IN  IF l.ok THEN Outcomes(l.notifier) ELSE {UnknownChannelError(channel)}

\* a Notification (models, lines 105-114) in its terminal status
Notification(f, r, step, err) ==
    [fp |-> f, run |-> r, step |-> step.StepNumber,
     channel |-> ChannelOf(step), recipient |-> RecipientOf(step),
     status |-> IF err = NilError THEN "sent" ELSE "failed",
     error |-> err]

\* the errors a dispatch can end with
DispatchErrors ==
    {NilError, SlackSendError} \cup {UnknownChannelError(c) : c \in ChannelNames}

\* the notifiers registered with the Manager the engine dispatches through
EscNotifiers == [c \in {"slack"} |-> [channel |-> "slack", inst |-> 1]]

EscMgrInit ==
    /\ notifiers = EscNotifiers
    /\ invoked = <<>>
    /\ sendLog = <<>>

\* a notify step's dispatch completes, sent or failed: the Notification is
\* recorded with its outcome and the run advances regardless of the outcome
DispatchDone(r, outcome) ==
    /\ r \in 1..Len(runs)
    /\ runs[r].state = "notifying"
    /\ agStatus[runs[r].fp] = "firing"
    /\ LET step == runs[r].steps[runs[r].index]
       IN  /\ outcome \in SendResults(notifiers, ChannelOf(step))
           /\ notifications' =
                 notifications \cup {Notification(runs[r].fp, r, step, outcome)}
    /\ runs' = [runs EXCEPT ![r] = Enter(@, @.index + 1)]
    /\ UNCHANGED <<chain, agStatus, starts, EscOthers>>

\* 100 s of a wait step pass
Tick(r) ==
    /\ r \in 1..Len(runs)
    /\ runs[r].state = "waiting"
    /\ runs[r].timer = "running"
    /\ runs[r].waited < runs[r].steps[runs[r].index].WaitSeconds
    /\ runs' = [runs EXCEPT ![r].waited = @ + 100]
    /\ UNCHANGED <<chain, agStatus, starts, notifications, EscOthers>>

\* the timer of a wait step fires after waitSeconds: the step completes
TimerFire(r) ==
    /\ r \in 1..Len(runs)
    /\ runs[r].state = "waiting"
    /\ runs[r].timer = "running"
    /\ runs[r].waited >= runs[r].steps[runs[r].index].WaitSeconds
    /\ agStatus[runs[r].fp] = "firing"
    /\ runs' = [runs EXCEPT ![r] = Enter(@, @.index + 1)]
    /\ UNCHANGED <<chain, agStatus, starts, notifications, EscOthers>>

\* an acknowledgement that changes the status and tells no run
AcknowledgeStatusOnly(f) ==
    /\ agStatus[f] = "firing"
    /\ agStatus' = [agStatus EXCEPT ![f] = "acknowledged"]
    /\ UNCHANGED <<chain, runs, starts, notifications, EscOthers>>

\* the operator acknowledges the alert group f: its run cancels any pending
\* timer and moves to stopped_acknowledged, whatever its current step
Acknowledge(f) ==
    /\ agStatus[f] = "firing"
    /\ agStatus' = [agStatus EXCEPT ![f] = "acknowledged"]
    /\ runs' = StopRunsOf(f, "stopped_acknowledged")
    /\ UNCHANGED <<chain, starts, notifications, EscOthers>>

\* the alert group f is resolved: its run cancels any pending timer and
\* moves to stopped_resolved
Resolve(f) ==
    /\ agStatus[f] \in {"firing", "acknowledged"}
    /\ agStatus' = [agStatus EXCEPT ![f] = "resolved"]
    /\ runs' = StopRunsOf(f, "stopped_resolved")
    /\ UNCHANGED <<chain, starts, notifications, EscOthers>>

\* the alert group f, acknowledged or resolved, fires again
Fire(f) ==
    /\ agStatus[f] # "firing"
    /\ agStatus' = [agStatus EXCEPT ![f] = "firing"]
    /\ UNCHANGED <<chain, runs, starts, notifications, EscOthers>>

(***************************************************************************)
(* Slack messages: SlackNotifier.buildSlackMessage.  The strings of this   *)
(* part are compared as wholes and written as TLA+ strings; the status     *)
(* icons are written by name.                                              *)
(***************************************************************************)
MaxSlackLabels == 2

SlackStatuses   == {"firing", "resolved", "acknowledged", "suppressed"}
SlackSeverities == {"critical", "warning", "info", "", "page"}
SlackLabelKeys  == {"alertname", "instance", "job", "team"}
SlackLabelMaps ==
    UNION { [S -> {"v1", "v2"}] :
              S \in {T \in SUBSET SlackLabelKeys : Cardinality(T) <= MaxSlackLabels} }
SlackAlerts ==
    [Status : SlackStatuses, Severity : SlackSeverities, Summary : {"disk full"},
     Description : {"", "d"}, Labels : SlackLabelMaps]

\* a colour choice in which the severity overrides the status
SlackColorSeverityFirst(alert) ==
    LET byStatus == IF alert.Status = "resolved" THEN "#00FF00"
                    ELSE IF alert.Status = "acknowledged" THEN "#FFFF00"
                    ELSE "#808080"
    IN  CASE alert.Severity = "critical" -> "#FF0000"
          [] alert.Severity = "warning"  -> "#FFA500"
          [] alert.Severity = "info"     -> "#0000FF"
          [] OTHER                       -> byStatus

\* notifier.go lines 139-158: the colour by severity, overwritten for the
\* statuses resolved and acknowledged
SlackColor(alert) ==
    LET color == CASE alert.Severity = "critical" -> "#FF0000"
                   [] alert.Severity = "warning"  -> "#FFA500"
                   [] alert.Severity = "info"     -> "#0000FF"
                   [] OTHER                       -> "#808080"
    IN  IF alert.Status = "resolved" THEN "#00FF00"
        ELSE IF alert.Status = "acknowledged" THEN "#FFFF00"
        ELSE color

\* notifier.go lines 151-158
StatusIcon(alert) ==
    IF alert.Status = "resolved" THEN "white_check_mark"
    ELSE IF alert.Status = "acknowledged" THEN "eyes"
    ELSE "fire"

SlackField(title, value, short) == [Title |-> title, Value |-> value, Short |-> short]

\* notifier.go lines 186-194: the fields of the key labels, in the order in
\* which the map is iterated
RECURSIVE LabelFields(_, _)
LabelFields(labels, keys) ==
    IF keys = <<>> THEN <<>>
    ELSE LET key == Head(keys)
         IN  (IF key = "alertname" \/ key = "instance" \/ key = "job"
              THEN <<SlackField(key, labels[key], TRUE)>> ELSE <<>>)
             \o LabelFields(labels, Tail(keys))

\* notifier.go lines 138-206.  Text is the Sprintf of "%s *%s* - %s", kept
\* as its pieces.
buildSlackMessage(alert, iterOrder) ==
    [Text |-> <<StatusIcon(alert), " *", alert.Severity, "* - ", alert.Summary>>,
     Attachments |->
        << [Color  |-> SlackColor(alert),
            Fields |-> <<SlackField("Status", alert.Status, TRUE),
                         SlackField("Severity", alert.Severity, TRUE)>>
                       \o (IF alert.Description # ""
                           THEN <<SlackField("Description", alert.Description, FALSE)>>
                           ELSE <<>>)
                       \o LabelFields(alert.Labels, iterOrder)] >>]

SlackInit ==
    /\ slackAlert \in SlackAlerts
    /\ slackOut = NoCall

SlackIdle ==
    /\ slackAlert = [Status |-> "firing", Severity |-> "", Summary |-> "disk full",
                     Description |-> "", Labels |-> <<>>]
    /\ slackOut = NoCall

\* a call of buildSlackMessage (from SlackNotifier.Send, line 71)
CallBuildSlackMessage ==
    /\ \E o \in IterOrders(DOMAIN slackAlert.Labels) :
          slackOut' = [called |-> TRUE, msg |-> buildSlackMessage(slackAlert, o)]
    /\ UNCHANGED <<slackAlert, graphVars, apiVars, fpVars, rotVars, storeVars,
                   batchVars, mgrVars, escVars>>

(***************************************************************************)
(* Flow engine: Graph.TopologicalSort, one step per map iteration, call of *)
(* visit, and append.                                                      *)
(***************************************************************************)
MaxDeps == 2

GraphIds == {"a", "b", "c"}
DepLists == UNION { [1..n -> GraphIds] : n \in 0..MaxDeps }
\* the graphs AddNode can build: a dependency need not be a node
Graphs == UNION { [S -> DepLists] : S \in SUBSET GraphIds }

\* an entry into visit that neither reads nor sets visited
EnterVisitNoMark(nodes, visited, stack, id) ==
    IF id \notin DOMAIN nodes THEN [visited |-> visited, stack |-> stack]
    ELSE [visited |-> visited, stack |-> Append(stack, [id |-> id, next |-> 1])]

\* engine.go lines 137-145: the call visit(id) up to its loop.  A call that
\* returns at once leaves no frame.
EnterVisit(nodes, visited, stack, id) ==
    IF id \in visited THEN [visited |-> visited, stack |-> stack]
    ELSE IF id \notin DOMAIN nodes
         THEN [visited |-> visited \cup {id}, stack |-> stack]
         ELSE [visited |-> visited \cup {id},
               stack   |-> Append(stack, [id |-> id, next |-> 1])]

GraphInit ==
    /\ gNodes \in Graphs
    /\ gPc = "idle"
    /\ gOrder = <<>>
    /\ gVisited = {}
    /\ gResult = <<>>
    /\ gStack = <<>>
    /\ gErr = "none"
    /\ gSteps = 0

GraphIdle == gNodes = <<>> /\ GraphInit

GraphOthers == <<slackVars, apiVars, fpVars, rotVars, storeVars, batchVars, mgrVars, escVars>>

\* engine.go lines 128-133 and 158: the sort starts; `range g.nodes` will
\* yield the node ids in an arbitrary order
SortBegin ==
    /\ gPc = "idle"
    /\ \E o \in IterOrders(DOMAIN gNodes) : gOrder' = o
    /\ gPc' = "range"
    /\ gSteps' = gSteps + 1
    /\ UNCHANGED <<gNodes, gVisited, gResult, gStack, gErr, GraphOthers>>

\* engine.go lines 158-162: the next id of the range is visited
RangeNext ==
    /\ gPc = "range" /\ gStack = <<>> /\ gOrder # <<>>
    /\ LET e == EnterVisit(gNodes, gVisited, gStack, Head(gOrder))
       IN  gVisited' = e.visited /\ gStack' = e.stack
    /\ gOrder' = Tail(gOrder)
    /\ gSteps' = gSteps + 1
    /\ UNCHANGED <<gNodes, gPc, gResult, gErr, GraphOthers>>

\* engine.go lines 148-152: the innermost visit calls visit on its next
\* dependency
VisitDep ==
    /\ gPc = "range" /\ gStack # <<>>
    /\ LET top == gStack[Len(gStack)]
           deps == gNodes[top.id]
       IN  /\ top.next <= Len(deps)
           /\ LET e == EnterVisit(gNodes, gVisited,
                           [gStack EXCEPT ![Len(gStack)].next = top.next + 1],
                           deps[top.next])
              IN  gVisited' = e.visited /\ gStack' = e.stack
    /\ gSteps' = gSteps + 1
    /\ UNCHANGED <<gNodes, gPc, gOrder, gResult, gErr, GraphOthers>>

\* engine.go lines 154-155: the innermost visit is through its dependencies,
\* appends its id and returns nil
VisitAppend ==
    /\ gPc = "range" /\ gStack # <<>>
    /\ LET top == gStack[Len(gStack)]
       IN  /\ top.next > Len(gNodes[top.id])
           /\ gResult' = Append(gResult, top.id)
    /\ gStack' = SubSeq(gStack, 1, Len(gStack) - 1)
    /\ gSteps' = gSteps + 1
    /\ UNCHANGED <<gNodes, gPc, gOrder, gVisited, gErr, GraphOthers>>

\* engine.go line 164: no call of visit returned an error
SortReturn ==
    /\ gPc = "range" /\ gStack = <<>> /\ gOrder = <<>>
    /\ gPc' = "done"
    /\ gErr' = "nil"
    /\ gSteps' = gSteps + 1
    /\ UNCHANGED <<gNodes, gOrder, gVisited, gResult, gStack, GraphOthers>>

(***************************************************************************)
(* HTTP API: the handlers of /api/v1/alerts/{id} registered by NewRouter.  *)
(* A response is its status code and the fields of its JSON body.          *)
(***************************************************************************)
\* the decimal texts of the row ids, as they appear in a URL
IdText == <<"1", "2", "3">>
ApiIds == { IdText[i] : i \in 1..Len(IdText) }

NoResponse == [op |-> "none", id |-> "", code |-> 0, body |-> <<>>]

\* router.go lines 187-191: respondJSON
respondJSON(op, id, status, data) == [op |-> op, id |-> id, code |-> status, body |-> data]

ApiInit == apiResp = NoResponse
ApiIdle == ApiInit

\* router.go lines 159-161: answers with the id of the URL and nothing else
getAlert(id) ==
    /\ apiResp' = respondJSON("getAlert", id, 200, [k \in {"id"} |-> id])
    /\ UNCHANGED <<slackVars, graphVars, fpVars, rotVars, storeVars,
                   batchVars, mgrVars, escVars>>

\* router.go lines 163-165: answers "acknowledged"; the store is not touched
acknowledgeAlert(id) ==
    /\ apiResp' = respondJSON("acknowledgeAlert", id, 200,
                              [k \in {"status"} |-> "acknowledged"])
    /\ UNCHANGED <<slackVars, graphVars, fpVars, rotVars, storeVars,
                   batchVars, mgrVars, escVars>>

\* router.go lines 167-169: answers "resolved"; the store is not touched
resolveAlert(id) ==
    /\ apiResp' = respondJSON("resolveAlert", id, 200,
                              [k \in {"status"} |-> "resolved"])
    /\ UNCHANGED <<slackVars, graphVars, fpVars, rotVars, storeVars,
                   batchVars, mgrVars, escVars>>

AuxIdle == SlackIdle /\ GraphIdle /\ ApiIdle

(***************************************************************************)
(* The specifications                                                      *)
(***************************************************************************)
FPNext == \E i \in 1..2 : CallGenerateFingerprint(i)
InitFP == FPInit /\ RotIdle /\ StoreIdle /\ BatchIdle /\ MgrIdle /\ EscIdle /\ AuxIdle
SpecFP == InitFP /\ [][FPNext]_vars

LayerNext == CallGetOnCallUser(1)
InitLayer == LayerInit /\ FPIdle /\ StoreIdle /\ BatchIdle /\ MgrIdle /\ EscIdle /\ AuxIdle
SpecLayer == InitLayer /\ [][LayerNext]_vars

SchedNext ==
    \/ CallGetCurrentOnCall
    \/ \E i \in 1..MaxLayers : CallGetOnCallUser(i)
InitSched == SchedInit /\ FPIdle /\ StoreIdle /\ BatchIdle /\ MgrIdle /\ EscIdle /\ AuxIdle
SpecSched == InitSched /\ [][SchedNext]_vars

Init == StoreInit /\ FPIdle /\ RotIdle /\ BatchIdle /\ MgrIdle /\ EscIdle /\ AuxIdle
Next ==
    \/ \E p \in Requests, n \in 0..MaxAlerts : Receive(p, n)
    \/ \E p \in Requests, alert \in StoreAlerts, d1 \in 0..1, d2 \in 0..1 : Build(p, alert, d1, d2)
    \/ \E p \in Requests : UpsertOK(p)
    \/ \E p \in Requests : UpsertErr(p)
    \/ \E p \in Requests : UpsertPanic(p)
    \/ \E p \in Requests : Return(p)
Spec == Init /\ [][Next]_vars

BatchNext ==
    \/ \E i \in 1..2 : BatchUpsertOK(i)
    \/ \E i \in 1..2 : BatchUpsertErr(i)
    \/ \E i \in 1..2 : BatchReturn(i)
InitBatch == BatchInit /\ FPIdle /\ RotIdle /\ StoreIdle /\ MgrIdle /\ EscIdle /\ AuxIdle
SpecBatch == InitBatch /\ [][BatchNext]_vars

MgrNext ==
    \/ \E n \in NotifierSet : Register(n)
    \/ \E c \in ChannelNames, r \in Recipients,
          o \in {NilError, SlackSendError} : Send(c, r, o)
InitMgr == MgrInit /\ FPIdle /\ RotIdle /\ StoreIdle /\ BatchIdle /\ EscIdle /\ AuxIdle
SpecMgr == InitMgr /\ [][MgrNext]_vars

RunIds == 1..MaxStarts

EscNext ==
    \/ \E f \in EscFingerprints : StartRun(f)
    \/ \E r \in RunIds : Begin(r)
    \/ \E r \in RunIds, o \in DispatchErrors : DispatchDone(r, o)
    \/ \E r \in RunIds : Tick(r)
    \/ \E r \in RunIds : TimerFire(r)
    \/ \E f \in EscFingerprints : Acknowledge(f)
    \/ \E f \in EscFingerprints : Resolve(f)
    \/ \E f \in EscFingerprints : Fire(f)
InitEsc == EscInit /\ EscMgrInit /\ FPIdle /\ RotIdle /\ StoreIdle /\ BatchIdle /\ AuxIdle
SpecEsc == InitEsc /\ [][EscNext]_vars

SlackNext == CallBuildSlackMessage
InitSlack ==
    SlackInit /\ GraphIdle /\ ApiIdle
        /\ FPIdle /\ RotIdle /\ StoreIdle /\ BatchIdle /\ MgrIdle /\ EscIdle
SpecSlack == InitSlack /\ [][SlackNext]_vars

GraphNext ==
    \/ SortBegin
    \/ RangeNext
    \/ VisitDep
    \/ VisitAppend
    \/ SortReturn
InitGraph ==
    GraphInit /\ SlackIdle /\ ApiIdle
        /\ FPIdle /\ RotIdle /\ StoreIdle /\ BatchIdle /\ MgrIdle /\ EscIdle
SpecGraph == InitGraph /\ [][GraphNext]_vars

\* webhook requests and operator requests on /alerts/{id}, interleaved
ApiNext ==
    \/ Next
    \/ \E id \in ApiIds : getAlert(id)
    \/ \E id \in ApiIds : acknowledgeAlert(id)
    \/ \E id \in ApiIds : resolveAlert(id)
InitApi ==
    StoreInit /\ ApiInit /\ SlackIdle /\ GraphIdle
        /\ FPIdle /\ RotIdle /\ BatchIdle /\ MgrIdle /\ EscIdle
SpecApi == InitApi /\ [][ApiNext]_vars

\* each run is driven by a task of its own, which keeps running: a step of a
\* run that stays possible is eventually taken
EscFairness ==
    \A r \in RunIds :
        /\ WF_vars(Begin(r))
        /\ WF_vars(\E o \in DispatchErrors : DispatchDone(r, o))
        /\ WF_vars(Tick(r))
        /\ WF_vars(TimerFire(r))
SpecEscFair == InitEsc /\ [][EscNext]_vars /\ EscFairness

(***************************************************************************)
(* Properties of generateFingerprint (SpecFP)                              *)
(***************************************************************************)
\* the (key, value) pairs of a label map that are not skipped
Significant(labels) == { <<k, labels[k]>> : k \in {x \in DOMAIN labels : ~IsSkipped(x)} }

BothCalled == fpOut[1].called /\ fpOut[2].called

\* C1: two label maps with the same non-excluded (key, value) pairs get the
\* same fingerprint, whatever the order in which each map was iterated and
\* whatever their `severity` and `__`-prefixed labels are.
C1_SameSignificantSameFingerprint ==
    (BothCalled /\ Significant(fpLabels[1]) = Significant(fpLabels[2]))
        => fpOut[1].fp = fpOut[2].fp

\* C1 witness: a map with `severity` and a map with a `__` label, otherwise
\* the same, have both been fingerprinted.
C1_Witness ==
    /\ BothCalled
    /\ fpLabels[1] = MapOf({ <<<<"a">>, <<"1">>>>, <<SeverityKey, <<"2">>>> })
    /\ fpLabels[2] = MapOf({ <<<<"a">>, <<"1">>>>, <<<<"_","_","r">>, <<"1">>>> })
    /\ fpOut[1].fp = fpOut[2].fp

\* C2: two label maps whose non-excluded (key, value) pairs differ in any
\* key or value, also when a key or value contains `|` or `=`, give
\* different strings to the hash.
C2_DifferentSignificantDifferentInput ==
    (BothCalled /\ Significant(fpLabels[1]) # Significant(fpLabels[2]))
        => fpOut[1].input # fpOut[2].input

LowerHexSet == { LowerHexDigits[i] : i \in 1..16 }

\* C3: every fingerprint, the empty map's included, is a string of exactly
\* 16 lowercase hexadecimal digits.
C3_SixteenLowerHex ==
    \A i \in 1..2 :
        fpOut[i].called =>
            /\ Len(fpOut[i].fp) = 16
            /\ \A j \in 1..Len(fpOut[i].fp) : fpOut[i].fp[j] \in LowerHexSet

\* C3 witness: the empty map has been fingerprinted.
C3_Witness ==
    /\ fpLabels[1] = MapOf({})
    /\ fpOut[1].called
    /\ Len(fpOut[1].fp) = 16

\* a label map all of whose keys are `severity` or start with `__`
NoSignificant(labels) ==
    \A k \in DOMAIN labels : k = SeverityKey \/ HasPrefix(k, InternalPrefix)

\* the table after the alerts with label maps l1 and l2 were ingested one
\* after the other, their maps iterated in the orders o1 and o2
IngestedInTurn(l1, o1, l2, o2) ==
    upsertAlert(
        upsertAlert({}, BuildAlertGroup(
            [Status |-> "firing", Labels |-> l1, Annotations |-> <<>>], o1, 0, 0)),
        BuildAlertGroup(
            [Status |-> "resolved", Labels |-> l2, Annotations |-> <<>>], o2, 1, 1))

\* C26: every label map without a non-excluded key (the empty map, a map of
\* `severity` and `__`-prefixed keys only) gets the fingerprint of the empty
\* map, and two such alerts ingested one after the other leave one row.
C26_InsignificantLabelsOneRow ==
    /\ \A i \in 1..2 :
          (fpOut[i].called /\ NoSignificant(fpLabels[i]))
              => fpOut[i].fp = generateFingerprint(<<>>, <<>>)
    /\ (BothCalled /\ NoSignificant(fpLabels[1]) /\ NoSignificant(fpLabels[2]))
          => \A o1 \in IterOrders(DOMAIN fpLabels[1]) :
               \A o2 \in IterOrders(DOMAIN fpLabels[2]) :
                 Cardinality(IngestedInTurn(fpLabels[1], o1, fpLabels[2], o2)) = 1

\* C26 witness: a map of `severity` only and a map of `severity` and a `__`
\* label have both been fingerprinted, with the same result.
C26_Witness ==
    /\ BothCalled
    /\ fpLabels[1] = MapOf({ <<SeverityKey, <<"2">>>> })
    /\ fpLabels[2] = MapOf({ <<SeverityKey, <<"1">>>>, <<<<"_","_","r">>, <<"2">>>> })
    /\ fpOut[1].fp = fpOut[2].fp

(***************************************************************************)
(* Properties of ingestion (Spec)                                          *)
(***************************************************************************)
RowsOf(rs, f) == {r \in rs : r.fingerprint = f}

\* request p's upsert commits in this step
Commits(p) == pc[p] = "upsert" /\ pc'[p] = "loop"

OneRowPerIngestedFingerprint ==
    /\ {r.fingerprint : r \in rows} = DOMAIN lastWrite
    /\ \A f \in DOMAIN lastWrite : Cardinality(RowsOf(rows, f)) = 1

ReingestKeepsCreatedAt ==
    \A p \in Requests :
        Commits(p) =>
            \A r \in RowsOf(rows, cur[p].Fingerprint) :
                \E r2 \in rows' :
                    /\ r2.fingerprint = r.fingerprint
                    /\ r2.created_at = r.created_at
                    /\ r2.updated_at = cur[p].UpdatedAt
                    /\ r2.status = cur[p].Status

\* C4: the table holds exactly one row per fingerprint ingested so far, and
\* an ingestion of a fingerprint that already has a row keeps the row's
\* created_at, sets updated_at to the new event's time and status to the new
\* event's status.
C4_OneRowCreatedAtKept ==
    [] OneRowPerIngestedFingerprint /\ [][ReingestKeepsCreatedAt]_vars

\* C4 witness: two ingestions have committed into one row, whose status is
\* the second event's and whose updated_at has moved past created_at.
C4_Witness ==
    /\ \A p \in Requests : ret[p].alertGroups = 1
    /\ Cardinality(rows) = 1
    /\ \E r \in rows : r.status = "resolved" /\ r.created_at < r.updated_at

\* C5: under every interleaving of the requests, each ingested fingerprint
\* has exactly one row and the row's status, severity, summary, description,
\* labels, annotations and updated_at are those of the upsert that committed
\* last.
C5_LastCommittedWriteWins ==
    \A f \in DOMAIN lastWrite :
        /\ Cardinality(RowsOf(rows, f)) = 1
        /\ \A r \in RowsOf(rows, f) :
              [status |-> r.status, severity |-> r.severity, summary |-> r.summary,
               description |-> r.description, labels |-> r.labels,
               annotations |-> r.annotations, updated_at |-> r.updated_at] = lastWrite[f]

\* C5 witness: two requests ingested the same fingerprint with different
\* severities, and the one that read the clock first committed last (the
\* row's updated_at is older than the other request's reading).
C5_Witness ==
    /\ \A p \in Requests : ret[p].alertGroups = 1 /\ pc[p] = "loop"
    /\ cur[1].Fingerprint = cur[2].Fingerprint
    /\ cur[1].Severity # cur[2].Severity
    /\ \E r \in rows : r.updated_at < clock /\ r.updated_at = cur[1].UpdatedAt
                       /\ r.severity = cur[1].Severity

\* the value of member k of a marshalled map, "" when there is none
Lookup(pairs, k) ==
    IF \E i \in 1..Len(pairs) : pairs[i][1] = k
    THEN pairs[CHOOSE i \in 1..Len(pairs) : pairs[i][1] = k][2]
    ELSE EmptyString

\* C11: every stored row's severity is its label `severity`, or `info` when
\* that label is absent or empty; its summary is its annotation `summary`,
\* else its label `alertname`, else empty; its description is its
\* annotation `description`, empty when absent.
C11_DerivedFields ==
    \A r \in rows :
        LET sev == Lookup(r.labels, SeverityKey)
            sum == Lookup(r.annotations, SummaryKey)
        IN  /\ r.severity = IF sev = EmptyString THEN InfoString ELSE sev
            /\ r.summary = IF sum # EmptyString THEN sum
                           ELSE Lookup(r.labels, AlertnameKey)
            /\ r.description = Lookup(r.annotations, DescriptionKey)

\* C11 witness: the alert with an alertname and a description but neither
\* severity nor summary is stored with severity `info` and the alertname as
\* its summary.
C11_Witness ==
    \E r \in rows :
        /\ r.labels = << <<AlertnameKey, <<"2">>>> >>
        /\ r.severity = InfoString
        /\ r.summary = <<"2">>
        /\ r.description = <<"2">>

\* C12: an alert whose label map is empty is not stored, and the request
\* that carried it gets a ValidationError.
C12_EmptyLabelsRejected ==
    /\ \A r \in rows : r.labels # <<>>
    /\ \A p \in Requests :
          (pc[p] \in {"loop", "done"} /\ cur[p] # NoAlertGroup /\ cur[p].Labels = MapOf({}))
              => ret[p].err = "ValidationError"

\* C13: every stored status is one of firing, acknowledged, resolved, and no
\* ingestion writes the status acknowledged (ingestion accepts firing and
\* resolved only).
C13_OnlyUpstreamStatuses ==
    /\ \A r \in rows : r.status \in {"firing", "acknowledged", "resolved"}
    /\ \A f \in DOMAIN lastWrite : lastWrite[f].status # "acknowledged"

\* C14: ProcessPrometheusWebhook never crashes, and a request that ended
\* without storing every alert of its batch (the store could not perform an
\* upsert) returned an error and no alert groups.
C14_StoreFailureReturnsError ==
    \A p \in Requests :
        /\ pc[p] # "panicked"
        /\ (pc[p] = "done" /\ idx[p] < nAlerts[p])
               => (ret[p].err # "nil" /\ ret[p].alertGroups = 0)

\* a table without its ids and timestamps
Stored(rs) ==
    { [fingerprint |-> r.fingerprint, status |-> r.status, severity |-> r.severity,
       summary |-> r.summary, description |-> r.description,
       labels |-> r.labels, annotations |-> r.annotations] : r \in rs }

BothDone == bRun[1].pc = "done" /\ bRun[2].pc = "done"

\* C15: for a batch of alerts with pairwise distinct fingerprints, the rows
\* stored after the batch, ids and timestamps aside, are the same for every
\* ordering of the batch, also when the ingestion of one of its alerts
\* fails.
C15_BatchOrderIrrelevant ==
    BothDone => Stored(bRun[1].rows) = Stored(bRun[2].rows)

\* the map a labels or annotations column holds
UnmarshalMap(pairs) ==
    [k \in {pairs[i][1] : i \in 1..Len(pairs)} |-> Lookup(pairs, k)]

RowFingerprintOfLabels(r) ==
    \A o \in IterOrders(DOMAIN UnmarshalMap(r.labels)) :
        r.fingerprint = generateFingerprint(UnmarshalMap(r.labels), o)

\* C23: every row a step inserts or rewrites has, as its fingerprint, the
\* fingerprint of the labels the row then holds, in whatever order these
\* are iterated; the table starts empty, so every stored row has it.
C23_FingerprintOfStoredLabels ==
    [][\A r \in rows' : r \notin rows => RowFingerprintOfLabels(r)]_vars

\* C23 witness: the two requests ingested reports of one alert whose label
\* maps differ, and the row holds the labels of the report that had the
\* empty severity.
C23_Witness ==
    /\ \A p \in Requests : ret[p].alertGroups = 1 /\ pc[p] = "done"
    /\ Cardinality(rows) = 1
    /\ \E r \in rows :
          r.labels = << << <<"a">>, <<"1">> >>, << SeverityKey, EmptyString >> >>
    /\ \E f \in DOMAIN lastWrite : lastWrite[f].status = "resolved"

KeepsFrame(r, r2) ==
    /\ r2.id = r.id
    /\ r2.fingerprint = r.fingerprint
    /\ r2.created_at = r.created_at
    /\ r2.escalation_chain_id = r.escalation_chain_id
    /\ r2.acknowledged_by = r.acknowledged_by
    /\ r2.acknowledged_at = r.acknowledged_at
    /\ r2.resolved_at = r.resolved_at

\* C24: every step keeps every row, with its id, fingerprint, created_at,
\* escalation_chain_id, acknowledged_by, acknowledged_at and resolved_at:
\* an ingestion changes nothing else than the other seven columns and
\* deletes no row.
C24_ReingestFrame ==
    [][\A r \in rows : \E r2 \in rows' : KeepsFrame(r, r2)]_vars

\* C24 witness: a row created as resolved was ingested again as firing; it
\* is still row 1 with its created_at, and there is no other row.
C24_Witness ==
    /\ \A p \in Requests : ret[p].alertGroups = 1
    /\ rows # {}
    /\ \A r \in rows : /\ r.id = 1
                        /\ r.status = "firing"
                        /\ r.severity = <<"2">>
                        /\ r.created_at = 0
                        /\ r.updated_at = 1

UpdatedAtNeverDecreases ==
    \A r \in rows : \A r2 \in rows' :
        r2.fingerprint = r.fingerprint => r2.updated_at >= r.updated_at

\* C27: under every interleaving no committed upsert lowers a row's
\* updated_at, and every row has updated_at >= created_at.
C27_UpdatedAtMonotonic ==
    /\ [][UpdatedAtNeverDecreases]_vars
    /\ [](\A r \in rows : r.updated_at >= r.created_at)

\* C28: the AlertGroup a request holds after its upsert has the id and the
\* createdAt of the row stored for its fingerprint, also when the row
\* existed before.
C28_ReturnedAgreesWithRow ==
    \A p \in Requests :
        (pc[p] = "loop" /\ cur[p].ID # 0)
            => \E r \in rows : /\ r.fingerprint = cur[p].Fingerprint
                               /\ r.id = cur[p].ID
                               /\ r.created_at = cur[p].CreatedAt

\* the rows a request on /alerts/{id} is about
RowsOfId(rs, id) == {r \in rs : r.id <= Len(IdText) /\ IdText[r.id] = id}

\* C22: an acknowledge request on a stored alert leaves its row with status
\* acknowledged and with acknowledgedBy and acknowledgedAt recorded, a
\* resolve request leaves it with status resolved, and a read of the alert
\* answers with the status the row has.
C22_OperatorActionsChangeStatus ==
    [][\A id \in ApiIds :
          /\ (acknowledgeAlert(id) /\ RowsOfId(rows, id) # {})
                => \A r \in RowsOfId(rows', id) :
                      /\ r.status = "acknowledged"
                      /\ r.acknowledged_by # "NULL"
                      /\ r.acknowledged_at # "NULL"
          /\ (resolveAlert(id) /\ RowsOfId(rows, id) # {})
                => \A r \in RowsOfId(rows', id) : r.status = "resolved"
          /\ (getAlert(id) /\ RowsOfId(rows, id) # {})
                => \A r \in RowsOfId(rows, id) :
                      /\ "status" \in DOMAIN apiResp'.body
                      /\ apiResp'.body["status"] = r.status]_vars

(***************************************************************************)
(* Properties of Slack messages (SpecSlack)                                *)
(***************************************************************************)
\* the colour the message of an alert is to have
ColourOf(status, severity) ==
    CASE status = "resolved"     -> "#00FF00"
      [] status = "acknowledged" -> "#FFFF00"
      [] severity = "critical"   -> "#FF0000"
      [] severity = "warning"    -> "#FFA500"
      [] severity = "info"       -> "#0000FF"
      [] OTHER                   -> "#808080"

HasField(fields, title, value) ==
    \E i \in 1..Len(fields) : fields[i].Title = title /\ fields[i].Value = value

RECURSIVE SumOfDeps(_, _)
SumOfDeps(nodes, S) ==
    IF S = {} THEN 0
    ELSE LET n == CHOOSE x \in S : TRUE
         IN  Len(nodes[n]) + SumOfDeps(nodes, S \ {n})

\* the dependencies of n that are nodes
NodeDeps(nodes, n) == {nodes[n][i] : i \in 1..Len(nodes[n])} \cap DOMAIN nodes

\* the nodes reached from the nodes of S along at most k dependencies
RECURSIVE ReachedFrom(_, _, _)
ReachedFrom(nodes, S, k) ==
    IF k = 0 THEN S
    ELSE ReachedFrom(nodes, S \cup UNION {NodeDeps(nodes, n) : n \in S}, k - 1)

Cyclic(nodes) ==
    \E n \in DOMAIN nodes :
        n \in ReachedFrom(nodes, NodeDeps(nodes, n), Cardinality(DOMAIN nodes))

PositionIn(seq, x) == CHOOSE i \in 1..Len(seq) : seq[i] = x

\* C30: TopologicalSort ends on every graph: it takes at most one step per
\* node of the range, per dependency and per append, its recursion is never
\* deeper than there are nodes, and it always has a step to take until it
\* returns.  It returns a nil error, also for a graph with a cycle, and a
\* list that holds every node exactly once and nothing else; for a graph
\* without a cycle every node comes after all its dependencies that are
\* nodes.
C30_TopologicalSortTerminates ==
    /\ gSteps <= 2 + 2 * Cardinality(DOMAIN gNodes) + SumOfDeps(gNodes, DOMAIN gNodes)
    /\ Len(gStack) <= Cardinality(DOMAIN gNodes)
    /\ gPc # "done" => ENABLED GraphNext
    /\ gPc = "done" =>
          /\ gErr = "nil"
          /\ Len(gResult) = Cardinality(DOMAIN gNodes)
          /\ {gResult[i] : i \in 1..Len(gResult)} = DOMAIN gNodes
          /\ ~Cyclic(gNodes) =>
                \A n \in DOMAIN gNodes : \A d \in NodeDeps(gNodes, n) :
                    PositionIn(gResult, d) < PositionIn(gResult, n)

\* C30 witness: a graph of two nodes that depend on each other, one of them
\* also on an id that is no node, has been sorted.
C30_Witness ==
    /\ gPc = "done"
    /\ DOMAIN gNodes = {"a", "b"}
    /\ gNodes["a"] = <<"b">>
    /\ gNodes["b"] = <<"a", "c">>
    /\ Len(gResult) = 2
    /\ gErr = "nil"

(***************************************************************************)
(* Properties of notification dispatch (SpecMgr)                           *)
(***************************************************************************)
Last(q) == q[Len(q)]

\* a call of Manager.Send returns in this step
SendReturns == Len(sendLog') = Len(sendLog) + 1

SendToUnregistered ==
    (SendReturns /\ Last(sendLog').channel \notin DOMAIN notifiers)
        => /\ Last(sendLog').err = UnknownChannelError(Last(sendLog').channel)
           /\ invoked' = invoked
           /\ notifiers' = notifiers

SendToRegistered ==
    (SendReturns /\ Last(sendLog').channel \in DOMAIN notifiers)
        => /\ Len(invoked') = Len(invoked) + 1
           /\ \A i \in 1..Len(invoked) : invoked'[i] = invoked[i]
           /\ Last(invoked').notifier = notifiers[Last(sendLog').channel]
           /\ Last(sendLog').err = Last(invoked').err

\* C16: a Send to a channel name that is not registered returns the
\* unknown-channel error, invokes no notifier and leaves the registry as it
\* was; a Send to a registered channel, also after such a failed Send,
\* invokes that channel's notifier once and returns its outcome.
C16_UnknownChannelIsolated ==
    [][SendToUnregistered /\ SendToRegistered]_vars

\* C16 witness: with slack registered, a Send to "unknown" failed with the
\* unknown-channel error and the next Send, to slack, reached the slack
\* notifier, whose failure it returned.
C16_Witness ==
    /\ Len(sendLog) = 2
    /\ sendLog[1] = [channel |-> "unknown", err |-> UnknownChannelError("unknown")]
    /\ sendLog[2] = [channel |-> "slack", err |-> SlackSendError]
    /\ Len(invoked) = 1
    /\ invoked[1].notifier = notifiers["slack"]
    /\ invoked[1].err = SlackSendError

(***************************************************************************)
(* Properties of the escalation engine (SpecEsc, SpecEscFair)              *)
(***************************************************************************)
Running(r) == r <= Len(runs) /\ runs[r].state \notin Terminal

AcknowledgedNow(f) == agStatus[f] # "acknowledged" /\ agStatus'[f] = "acknowledged"

AckStopsRun ==
    \A r \in RunIds :
        (Running(r) /\ AcknowledgedNow(runs[r].fp))
            => /\ runs'[r].state = "stopped_acknowledged"
               /\ runs'[r].timer = "none"

StoppedAcknowledgedStays ==
    \A r \in RunIds :
        (r <= Len(runs) /\ runs[r].state = "stopped_acknowledged")
            => runs'[r] = runs[r]

\* C17: when the alert group of a non-terminal run becomes acknowledged, in
\* that step the run's timer is cancelled and the run is in
\* stopped_acknowledged, and from then on the run does not change: no step
\* of it executes afterwards.
C17_AcknowledgeStopsRun ==
    [][AckStopsRun /\ StoppedAcknowledgedStays]_vars

\* C17 witness: a run of the chain (notify_user, wait 300 s) was
\* acknowledged 100 s into its wait.
C17_Witness ==
    /\ chain = << Policy(1, "notify_user", "primary", 0), Policy(2, "wait", "", 300) >>
    /\ Len(runs) >= 1
    /\ runs[1].state = "stopped_acknowledged"
    /\ runs[1].executed = <<1, 2>>
    /\ runs[1].waited = 100
    /\ runs[1].timer = "none"
    /\ agStatus[runs[1].fp] = "acknowledged"

StepNumbersOf(ps) == {ps[i].StepNumber : i \in 1..Len(ps)}

StoppedOnlyByStatusChange ==
    \A r \in RunIds :
        (Running(r) /\ runs'[r].state \in {"stopped_acknowledged", "stopped_resolved"})
            => agStatus'[runs[r].fp] \in {"acknowledged", "resolved"} \ {agStatus[runs[r].fp]}

ExhaustedAfterLastStep ==
    \A r \in RunIds :
        (r <= Len(runs) /\ runs[r].state = "stopped_exhausted" /\ runs[r].err = "none")
            => /\ Len(runs[r].executed) = Len(chain)
               /\ {runs[r].executed[i] : i \in 1..Len(chain)} = StepNumbersOf(chain)
               /\ runs[r].active = {}

ExhaustedStays ==
    \A r \in RunIds :
        (r <= Len(runs) /\ runs[r].state = "stopped_exhausted")
            => runs'[r] = runs[r]

\* C18: every run eventually stops, and it stops otherwise than in
\* stopped_exhausted only in a step in which its alert group becomes
\* acknowledged or resolved; a run exhausted without an engine error has
\* executed every step of the chain, and an exhausted run does not change.
C18_EventuallyExhausted ==
    /\ \A r \in RunIds : (r <= Len(runs)) ~> (r <= Len(runs) /\ ~Running(r))
    /\ [][StoppedOnlyByStatusChange /\ ExhaustedStays]_vars
    /\ []ExhaustedAfterLastStep

\* C18 witness: a run of the chain (notify_user, wait 300 s) waited the 300 s
\* and is exhausted while its alert group is still firing.
C18_Witness ==
    /\ chain = << Policy(1, "notify_user", "primary", 0), Policy(2, "wait", "", 300) >>
    /\ Len(runs) >= 1
    /\ runs[1].state = "stopped_exhausted"
    /\ runs[1].executed = <<1, 2>>
    /\ runs[1].waited = 300
    /\ agStatus[runs[1].fp] = "firing"

ActiveRunsOf(f) == {r \in 1..Len(runs) : runs[r].fp = f /\ runs[r].state \notin Terminal}

OneActiveRunPerFingerprint ==
    \A f \in EscFingerprints : Cardinality(ActiveRunsOf(f)) <= 1

StartIsIdempotent ==
    starts' = starts + 1 =>
        \/ runs' = runs
        \/ /\ runs' = Append(runs, Last(runs'))
           /\ ActiveRunsOf(Last(runs').fp) = {}

\* C19: no fingerprint ever has two non-terminal runs, and a request to
\* start a run either changes no run or adds one run for a fingerprint that
\* had no non-terminal run.
C19_OneActiveRun ==
    []OneActiveRunPerFingerprint /\ [][StartIsIdempotent]_vars

\* C19 witness: two requests to start a run were made, one of them while the
\* fingerprint's run was under way; there is one run and it has progressed.
C19_Witness ==
    /\ starts = 2
    /\ Len(runs) = 1
    /\ runs[1].state = "waiting"
    /\ runs[1].waited = 100

\* the number of steps of the chain with a step number below n
StepsBelow(n) == Cardinality({i \in 1..Len(chain) : chain[i].StepNumber < n})

\* C20: the steps a run has executed are in strictly increasing stepNumber
\* order and are the chain's first steps in that order, none skipped; at
\* most one step of a run is under way.
C20_StepsInOrder ==
    \A r \in 1..Len(runs) :
        /\ \A i, j \in 1..Len(runs[r].executed) :
              i < j => runs[r].executed[i] < runs[r].executed[j]
        /\ \A i \in 1..Len(runs[r].executed) :
              /\ runs[r].executed[i] \in StepNumbersOf(chain)
              /\ StepsBelow(runs[r].executed[i]) = i - 1
        /\ Cardinality(runs[r].active) <= 1
        /\ runs[r].active \subseteq
              {runs[r].executed[i] : i \in {Len(runs[r].executed)} \ {0}}

\* C20 witness: a run of the chain stored as (step 3, step 1) executed step
\* 1 and then step 3.
C20_Witness ==
    /\ Len(chain) = 2
    /\ chain[1].StepNumber = 3
    /\ Len(runs) >= 1
    /\ runs[1].executed = <<1, 3>>
    /\ runs[1].state = "stopped_exhausted"

IsNotify(step) == step.PolicyType \in {"notify_user", "notify_channel"}

\* the Notification rows of step k of run r
NotificationsOf(r, k) ==
    {n \in notifications : n.run = r /\ n.step = runs[r].steps[k].StepNumber}

\* the run of a Notification has gone past the step that recorded it
AdvancedPast(n) ==
    \E k \in 1..Len(runs[n.run].steps) :
        /\ runs[n.run].steps[k].StepNumber = n.step
        /\ k < runs[n.run].index

IntervalHours(l) ==
    IF l.RotationType = "daily" THEN 24
    ELSE IF l.RotationType = "weekly" THEN 7 * 24
    ELSE l.DurationHours

\* users[floor((t - rotationStart) / interval) mod len(users)], for a
\* positive interval (\div and % are floor division and non-negative modulo)
FloorUser(l, t) ==
    l.Users[(((t - l.RotationStart) \div IntervalHours(l)) % Len(l.Users)) + 1]

LayerCalled == rotOut.called /\ rotOut.op = "Layer.GetOnCallUser"
SchedCalled == rotOut.called /\ rotOut.op = "Schedule.GetCurrentOnCall"

\* C6: for a layer with users, a valid (positive) interval and an instant at
\* or after rotationStart, GetOnCallUser returns
\* users[floor((t - rotationStart) / interval) mod len(users)] and no error.
C6_RotationAtOrAfterStart ==
    LayerCalled =>
        LET l == layers[rotOut.layer]
        IN  (Len(l.Users) >= 1 /\ now >= l.RotationStart /\ IntervalHours(l) > 0)
                => rotOut.res = Returned(FloorUser(l, now))

\* C6 witness: weekly rotation of three users queried 14.5 days after the
\* start resolves to the third user.
C6_Witness ==
    /\ LayerCalled
    /\ layers[1].RotationType = "weekly"
    /\ layers[1].Users = <<"alice", "bob", "charlie">>
    /\ now - layers[1].RotationStart = 14 * 24 + 12
    /\ rotOut.res.user = "charlie"

\* C7: for a layer with users and an instant before rotationStart,
\* GetOnCallUser does not fail and returns users[rotations mod len(users)]
\* with rotations = floor((t - rotationStart) / interval) and a non-negative
\* modulo.
C7_RotationBeforeStart ==
    LayerCalled =>
        LET l == layers[rotOut.layer]
        IN  (Len(l.Users) >= 1 /\ now < l.RotationStart /\ IntervalHours(l) > 0)
                => rotOut.res = Returned(FloorUser(l, now))

\* C8: a layer with no users resolves to the empty result with no error, for
\* every instant, rotation type and durationHours.
C8_EmptyUsersEmptyResult ==
    LayerCalled =>
        (layers[rotOut.layer].Users = <<>> => rotOut.res = Returned(""))

\* C8 witness: a custom layer with durationHours = 0 and no users has been
\* resolved.
C8_Witness ==
    /\ LayerCalled
    /\ layers[1].Users = <<>>
    /\ layers[1].RotationType = "custom"
    /\ layers[1].DurationHours = 0
    /\ rotOut.res.user = ""

\* the first instant of the rotation window that holds t, for t >= start
WindowStart(l, t) ==
    l.RotationStart + ((t - l.RotationStart) \div IntervalHours(l)) * IntervalHours(l)

\* the user after u in list order, the first one after the last
NextInList(users, u) ==
    users[((CHOOSE i \in 1..Len(users) : users[i] = u) % Len(users)) + 1]

\* C29: for a layer with users and a positive interval, resolved at an
\* instant at or after rotationStart: the result is one of the users, every
\* instant of the same window resolves to the same user, the first instant
\* of the next window resolves to the next user in list order (the first
\* after the last), and the instant len(users) intervals later resolves to
\* the same user again.
C29_RotationWindows ==
    LayerCalled =>
        LET l == layers[rotOut.layer]
            I == IntervalHours(l)
            w == WindowStart(l, now)
        IN  (Len(l.Users) >= 1 /\ I > 0 /\ now >= l.RotationStart)
                => /\ rotOut.res.panic = "none" /\ rotOut.res.err = "nil"
                   /\ \E i \in 1..Len(l.Users) : rotOut.res.user = l.Users[i]
                   /\ \A t \in w..(w + I - 1) : GetOnCallUser(l, t) = rotOut.res
                   /\ GetOnCallUser(l, w + I)
                        = Returned(NextInList(l.Users, rotOut.res.user))
                   /\ GetOnCallUser(l, now + Len(l.Users) * I) = rotOut.res

\* C29 witness: a daily rotation of three users resolved in the middle of
\* its third window gives the last user, and the next window wraps to the
\* first one.
C29_Witness ==
    /\ LayerCalled
    /\ layers[1].RotationType = "daily"
    /\ layers[1].Users = <<"alice", "bob", "charlie">>
    /\ now - layers[1].RotationStart = 2 * 24 + 5
    /\ rotOut.res.user = "charlie"
    /\ GetOnCallUser(layers[1], now + 19).user = "alice"

\* the layers of a schedule that resolve to a non-empty user at t
Yielding(ls, t) ==
    { i \in 1..Len(ls) : LET r == GetOnCallUser(ls[i], t)
                         IN  r.panic = "none" /\ r.err = "nil" /\ r.user # "" }

FirstYield(ls, t) ==
    IF Yielding(ls, t) = {} THEN ""
    ELSE GetOnCallUser(ls[CHOOSE i \in Yielding(ls, t) :
                              \A j \in Yielding(ls, t) : i <= j], t).user

\* C9: GetCurrentOnCall returns, with no error, the user of the first layer
\* in definition order that resolves to a non-empty user, and the empty
\* result when there is no layer or no layer yields a user.
C9_FirstYieldingLayerWins ==
    SchedCalled => rotOut.res = Returned(FirstYield(layers, now))

\* C10: resolving a custom layer with users and durationHours <= 0 returns a
\* ConfigurationError to the caller: no crash and no user.
C10_NonPositiveCustomDurationIsError ==
    LayerCalled =>
        LET l == layers[rotOut.layer]
        IN  (l.RotationType = "custom" /\ Len(l.Users) >= 1 /\ l.DurationHours <= 0)
                => /\ rotOut.res.panic = "none"
                   /\ rotOut.res.err = "ConfigurationError"
                   /\ rotOut.res.user = ""

====
